---- MODULE Spec2Model ----
(***************************************************************************)
(* Dashboard state core of the medical-courier dashboard                   *)
(* (src/unnamed/part_000, the notes-enabled page; src/app/page.tsx is the  *)
(* earlier page without notes).                                            *)
(*                                                                         *)
(* One React component on one event loop.  Every action below is one       *)
(* event-loop turn: a user event, a timer callback, the continuation of    *)
(* an awaited gateway call, or a pushed change event, followed by the      *)
(* re-render and the effects whose dependencies that turn changed.  The    *)
(* gateway (store, change feed) is the other process: it serves a call     *)
(* some time after it was sent and the answer reaches the page some time   *)
(* after that.                                                             *)
(***************************************************************************)
EXTENDS Integers, Sequences, FiniteSets, Bags, TLC

(***************************************************************************)
(* Values                                                                  *)
(***************************************************************************)
OWNER_A == "A"
OWNER_B == "B"
ALL_OWNERS == <<OWNER_A, OWNER_B>>
Owners == {ALL_OWNERS[i] : i \in DOMAIN ALL_OWNERS}

\* useState<number | null>(null): the null selection, outside the week numbers
Null == -1

\* updated_at of a cache entry: undefined, the store's timestamp of a fetched
\* row, or the page's own new Date().toISOString()
Undefined == "undefined"
StoreTime == "store"
ClientNow == "now"

\* note texts are sequences of characters
Whitespace == {" "}
EmptyText == << >>
EditTexts == {EmptyText, <<"a">>, <<" ", "a">>}
RemoteTexts == {<<"b">>}

\* what the store may hold: its weeks (none, or week_number any integer, 0
\* too), and its tasks; week 3 and week 0 have no task
WeekNumbers == {0, 1, 2, 3}
StoreWeeks == {{}, {0, 1, 2}, {1, 2, 3}}
StoreTasks ==
  { [id |-> 1, week_number |-> 1, owner |-> OWNER_A, description |-> <<"x">>,
     status |-> "Pending", created_at |-> 1],
    [id |-> 2, week_number |-> 2, owner |-> OWNER_B, description |-> <<"y">>,
     status |-> "Pending", created_at |-> 2] }
TaskIds == {t.id : t \in StoreTasks}
Keys == TaskIds \X Owners

\* the user of this page is co-owner A and types into A's editor of task 1;
\* the other client of the store is co-owner B
TypedKeys == {<<1, OWNER_A>>}
OtherKeys == TaskIds \X {OWNER_B}

\* type Status, and what the user may type as a new task's description
Statuses == {"Pending", "In Progress", "Completed"}
NewDescs == {EmptyText, <<" ">>, <<" ", "c">>}

\* bounds
MaxCalls == 2
MaxEvents == 1
MaxTasks == 3

\* const delayMs = 1500; time advances in steps of half the delay
delayMs == 1500
TickMs == delayMs \div 2

(***************************************************************************)
(* Pure helpers                                                            *)
(***************************************************************************)
makeKey(taskId, owner) == <<taskId, owner>>

\* String.prototype.trim
RECURSIVE TrimStart(_)
TrimStart(s) ==
  IF s # << >> /\ Head(s) \in Whitespace THEN TrimStart(Tail(s)) ELSE s
RECURSIVE TrimEnd(_)
TrimEnd(s) ==
  IF s # << >> /\ s[Len(s)] \in Whitespace THEN TrimEnd(SubSeq(s, 1, Len(s) - 1)) ELSE s
trim(s) == TrimEnd(TrimStart(s))

\* the typed texts that trim leaves alone
PlainTexts == {text \in EditTexts : trim(text) = text}

\* JavaScript truthiness of number | null, as used by !selectedWeek
Truthy(w) == w # Null /\ w # 0

\* record-like maps with a partial domain
EmptyMap == << >>
Put(m, k, v) == [x \in (DOMAIN m) \cup {k} |-> IF x = k THEN v ELSE m[x]]

Range(s) == {s[i] : i \in DOMAIN s}

RECURSIVE SetToSeq(_)
SetToSeq(S) ==
  IF S = {} THEN << >>
  ELSE LET x == CHOOSE y \in S : TRUE IN <<x>> \o SetToSeq(S \ {x})

\* draftByTask?.[taskId]?.[owner] ?? ""
DraftOf(drafts, k) == IF k \in DOMAIN drafts THEN drafts[k] ELSE EmptyText
\* notesByTask?.[taskId]?.[owner]?.note ?? ""
SavedOf(notes, k) == IF k \in DOMAIN notes THEN notes[k].note ELSE EmptyText

(***************************************************************************)
(* The store                                                               *)
(***************************************************************************)
\* .from("tasks").select(...).eq("week_number", weekNum).order("created_at", desc)
RECURSIVE OrderDesc(_)
OrderDesc(S) ==
  IF S = {} THEN << >>
  ELSE LET x == CHOOSE y \in S : \A z \in S : z.created_at <= y.created_at
       IN <<x>> \o OrderDesc(S \ {x})
SelectTasks(db, weekNum) == OrderDesc({t \in db : t.week_number = weekNum})

\* .from("task_notes").select(...).in("task_id", taskIds)
SelectNotes(db, taskIds) ==
  SetToSeq({r \in BagToSet(db) : r.task_id \in Range(taskIds)})

\* a plain insert: what the write would be without the conflict target
InsertNote(db, row) == db (+) SetToBag({row})

\* .upsert({task_id, owner, note}, {onConflict: "task_id,owner"})
UpsertNote(db, row) ==
  LET conflict == {r \in BagToSet(db) : r.task_id = row.task_id /\ r.owner = row.owner}
  IN IF conflict = {} THEN db (+) SetToBag({row})
     ELSE LET old == CHOOSE r \in conflict : TRUE
          IN (db (-) SetToBag({old})) (+) SetToBag({row})

(***************************************************************************)
(* State                                                                   *)
(***************************************************************************)
VARIABLES
  authChecked,          \* useState(false)
  weeks,                \* useState<WeekRow[]>([]), as the week numbers
  selectedWeek,         \* useState<number | null>(null)
  tasks,                \* useState<TaskRow[]>([])
  errorMsg,             \* useState<string>("")
  notesByTask,          \* key -> [note, updated_at]
  draftByTask,          \* key -> text
  taskIdSetRef,         \* useRef<Set<string>>, in insertion order
  autosaveTimersRef,    \* key -> live timer: time left and the closure's values
  autosaveInFlightRef,  \* useRef<Set<string>>
  savingKeys,           \* the keys whose saving flag is true
  newOwner,             \* useState<Owner>(OWNER_A)
  newDesc,              \* useState<string>("")
  channels,             \* the subscribed realtime channels
  weekCalls,            \* gateway calls under way, one bag per kind
  taskCalls,
  noteCalls,
  saveCalls,
  writeCalls,           \* task inserts and updates under way
  dbWeeks,              \* the store's weeks rows, as the week numbers
  dbTasks,              \* the store's tasks rows
  dbNotes,              \* the store's task_notes rows
  feed,                 \* change events pushed and not yet delivered
  last                  \* history: the latest turn (time passing is no turn)

page == <<authChecked, weeks, selectedWeek, tasks, errorMsg, notesByTask,
          draftByTask, taskIdSetRef, autosaveTimersRef, autosaveInFlightRef,
          savingKeys, newOwner, newDesc, channels>>
gateway == <<weekCalls, taskCalls, noteCalls, saveCalls, writeCalls,
             dbWeeks, dbTasks, dbNotes, feed>>
vars == <<page, gateway, last>>

NoKey == <<0, "">>
Turn(op, key, flag) == [op |-> op, key |-> key, flag |-> flag]

Init ==
  /\ authChecked = FALSE
  /\ weeks = << >>
  /\ selectedWeek = Null
  /\ tasks = << >>
  /\ errorMsg = ""
  /\ notesByTask = EmptyMap
  /\ draftByTask = EmptyMap
  /\ taskIdSetRef = << >>
  /\ autosaveTimersRef = EmptyMap
  /\ autosaveInFlightRef = {}
  /\ savingKeys = {}
  /\ newOwner = OWNER_A
  /\ newDesc = EmptyText
  /\ channels = {}
  /\ weekCalls = EmptyBag
  /\ taskCalls = EmptyBag
  /\ noteCalls = EmptyBag
  /\ saveCalls = EmptyBag
  /\ writeCalls = EmptyBag
  /\ dbWeeks \in StoreWeeks
  /\ dbTasks = StoreTasks
  /\ dbNotes = EmptyBag
  /\ feed = EmptyBag
  /\ last = Turn("init", NoKey, FALSE)


(***************************************************************************)
(* Gateway calls under way                                                 *)
(***************************************************************************)
One(x) == SetToBag({x})

WeekCall == [st |-> "sent", data |-> << >>]
TaskCall(weekNum) == [week |-> weekNum, st |-> "sent", data |-> << >>]
NoteCall(taskIds) == [taskIds |-> taskIds, st |-> "sent", data |-> << >>]
\* raw is saveNote's local: the text the note was trimmed from
SaveCall(taskId, owner, raw, note) ==
  [task_id |-> taskId, owner |-> owner, raw |-> raw, note |-> note, st |-> "sent"]

CallCount ==
  BagCardinality(weekCalls) + BagCardinality(taskCalls)
    + BagCardinality(noteCalls) + BagCardinality(saveCalls)
    + BagCardinality(writeCalls)
CanCall == CallCount < MaxCalls
CanPush == BagCardinality(feed) < MaxEvents

NoteEventOf(taskId) == [table |-> "task_notes", ref |-> taskId]

(***************************************************************************)
(* Effects                                                                 *)
(***************************************************************************)
VisibleKeys(ts) == {makeKey(ts[i].id, o) : i \in DOMAIN ts, o \in Owners}

\* an autosave effect that arms timers and clears none
AutosaveEffectKeepsTimers(ts, drafts, notes) ==
  LET dirty == {k \in VisibleKeys(ts) : DraftOf(drafts, k) # SavedOf(notes, k)}
  IN [k \in dirty \cup DOMAIN autosaveTimersRef |->
        IF k \in DOMAIN autosaveTimersRef THEN autosaveTimersRef[k]
        ELSE [left |-> delayMs, draft |-> DraftOf(drafts, k), saved |-> SavedOf(notes, k)]]

\* an autosave effect whose rerun restarts a pending timer without renewing
\* the draft and the saved note its callback closed over
AutosaveEffectStaleClosure(ts, drafts, notes) ==
  LET dirty == {k \in VisibleKeys(ts) : DraftOf(drafts, k) # SavedOf(notes, k)}
  IN [k \in dirty |->
        IF k \in DOMAIN autosaveTimersRef
          THEN [autosaveTimersRef[k] EXCEPT !.left = delayMs]
          ELSE [left |-> delayMs, draft |-> DraftOf(drafts, k), saved |-> SavedOf(notes, k)]]

\* The autosave effect, deps [draftByTask, notesByTask, tasks].  Its cleanup
\* clears every timer of autosaveTimersRef; its body arms one timer for each
\* key of the rendered tasks whose draft differs from its saved note.  The
\* callback closes over that render's draftByTask and notesByTask.
AutosaveEffect(ts, drafts, notes) ==
  LET dirty == {k \in VisibleKeys(ts) : DraftOf(drafts, k) # SavedOf(notes, k)}
  IN [k \in dirty |->
        [left |-> delayMs, draft |-> DraftOf(drafts, k), saved |-> SavedOf(notes, k)]]

\* The realtime effect, deps [authChecked, selectedWeek]: the previous
\* channels are removed, then both channels are subscribed for a truthy week.
RealtimeEffect(auth, week) ==
  IF ~auth \/ ~Truthy(week) THEN {}
  ELSE {[table |-> "tasks", filter |-> week], [table |-> "task_notes", filter |-> Null]}

\* The load-tasks effect and the realtime effect after selectedWeek became w
\* (authChecked is true): loadTasks(w) clears the message and sends the fetch.
WeekEffects(w, calls) ==
  /\ channels' = RealtimeEffect(TRUE, w)
  /\ IF Truthy(w)
       THEN /\ errorMsg' = ""
            /\ taskCalls' = calls (+) One(TaskCall(w))
       ELSE /\ errorMsg' = errorMsg
            /\ taskCalls' = calls

(***************************************************************************)
(* Session gate and week loading                                           *)
(***************************************************************************)
\* requireAuth finds a session; the [authChecked] effect calls loadWeeks
AuthConfirmed ==
  /\ ~authChecked
  /\ authChecked' = TRUE
  /\ errorMsg' = ""
  /\ weekCalls' = weekCalls (+) One(WeekCall)
  /\ last' = Turn("auth", NoKey, FALSE)
  /\ UNCHANGED <<weeks, selectedWeek, tasks, notesByTask, draftByTask, taskIdSetRef,
                 autosaveTimersRef, autosaveInFlightRef, savingKeys, channels,
                 taskCalls, noteCalls, saveCalls, dbWeeks, dbTasks, dbNotes, feed>>
  /\ UNCHANGED <<newOwner, newDesc, writeCalls>>

\* .from("weeks").select(...).order("week_number", {ascending: true})
RECURSIVE OrderAsc(_)
OrderAsc(S) ==
  IF S = {} THEN << >>
  ELSE LET x == CHOOSE y \in S : \A z \in S : y <= z
       IN <<x>> \o OrderAsc(S \ {x})
SelectWeeks(db) == OrderAsc(db)

\* the store answers the weeks fetch
ServeWeeks(c) ==
  /\ BagIn(c, weekCalls)
  /\ c.st = "sent"
  /\ weekCalls' = (weekCalls (-) One(c)) (+) One([c EXCEPT !.st = "ok", !.data = SelectWeeks(dbWeeks)])
  /\ last' = Turn("gateway", NoKey, FALSE)
  /\ UNCHANGED <<page, taskCalls, noteCalls, saveCalls, dbWeeks, dbTasks, dbNotes, feed>>
  /\ UNCHANGED <<writeCalls>>

\* loadWeeks after the await, error branch
LoadWeeksFailed(c) ==
  /\ BagIn(c, weekCalls)
  /\ c.st = "sent"
  /\ weekCalls' = weekCalls (-) One(c)
  /\ errorMsg' = "Failed to load weeks"
  /\ last' = Turn("weeksFailed", NoKey, FALSE)
  /\ UNCHANGED <<authChecked, weeks, selectedWeek, tasks, notesByTask, draftByTask,
                 taskIdSetRef, autosaveTimersRef, autosaveInFlightRef, savingKeys,
                 channels, taskCalls, noteCalls, saveCalls, dbWeeks, dbTasks, dbNotes, feed>>
  /\ UNCHANGED <<newOwner, newDesc, writeCalls>>

\* a loadWeeks that never selects
SelectionKept(safeWeeks, selected) == selected

\* the selection loadWeeks leaves
SelectionAfter(safeWeeks, selected) ==
  IF Len(safeWeeks) > 0 /\ ~(\E i \in DOMAIN safeWeeks : safeWeeks[i] = selected)
    THEN safeWeeks[1] ELSE selected

\* loadWeeks after the await, success branch
LoadWeeksDone(c) ==
  /\ BagIn(c, weekCalls)
  /\ c.st = "ok"
  /\ weekCalls' = weekCalls (-) One(c)
  /\ weeks' = c.data
  /\ selectedWeek' = SelectionAfter(c.data, selectedWeek)
  /\ IF selectedWeek' # selectedWeek
       THEN WeekEffects(selectedWeek', taskCalls)
       ELSE UNCHANGED <<channels, errorMsg, taskCalls>>
  /\ last' = Turn("weeksDone", NoKey, FALSE)
  /\ UNCHANGED <<authChecked, tasks, notesByTask, draftByTask, taskIdSetRef,
                 autosaveTimersRef, autosaveInFlightRef, savingKeys,
                 noteCalls, saveCalls, dbWeeks, dbTasks, dbNotes, feed>>
  /\ UNCHANGED <<newOwner, newDesc, writeCalls>>

\* a week button: onClick={() => setSelectedWeek(w.week_number)}
SelectWeek(w) ==
  /\ authChecked
  /\ w \in Range(weeks)
  /\ w # selectedWeek
  /\ Truthy(w) => CanCall
  /\ selectedWeek' = w
  /\ WeekEffects(w, taskCalls)
  /\ last' = Turn("selectWeek", NoKey, FALSE)
  /\ UNCHANGED <<authChecked, weeks, tasks, notesByTask, draftByTask, taskIdSetRef,
                 autosaveTimersRef, autosaveInFlightRef, savingKeys,
                 weekCalls, noteCalls, saveCalls, dbWeeks, dbTasks, dbNotes, feed>>
  /\ UNCHANGED <<newOwner, newDesc, writeCalls>>

(***************************************************************************)
(* Task loading                                                            *)
(***************************************************************************)
Ids(rows) == [i \in DOMAIN rows |-> rows[i].id]

\* the store answers a tasks fetch with the rows it holds at that moment
ServeTasks(c) ==
  /\ BagIn(c, taskCalls)
  /\ c.st = "sent"
  /\ taskCalls' = (taskCalls (-) One(c))
                    (+) One([c EXCEPT !.st = "ok", !.data = SelectTasks(dbTasks, c.week)])
  /\ last' = Turn("gateway", NoKey, FALSE)
  /\ UNCHANGED <<page, weekCalls, noteCalls, saveCalls, dbWeeks, dbTasks, dbNotes, feed>>
  /\ UNCHANGED <<writeCalls>>

\* an error branch that empties the task list
LoadTasksFailedClears(c) ==
  /\ BagIn(c, taskCalls)
  /\ c.st = "sent"
  /\ taskCalls' = taskCalls (-) One(c)
  /\ errorMsg' = "Failed to load tasks"
  /\ tasks' = << >>
  /\ autosaveTimersRef' = EmptyMap
  /\ last' = Turn("tasksFailed", NoKey, FALSE)
  /\ UNCHANGED <<authChecked, weeks, selectedWeek, notesByTask, draftByTask,
                 taskIdSetRef, autosaveInFlightRef, savingKeys,
                 channels, weekCalls, noteCalls, saveCalls, dbWeeks, dbTasks, dbNotes, feed>>
  /\ UNCHANGED <<newOwner, newDesc, writeCalls>>

\* loadTasks after the await, error branch
LoadTasksFailed(c) ==
  /\ BagIn(c, taskCalls)
  /\ c.st = "sent"
  /\ taskCalls' = taskCalls (-) One(c)
  /\ errorMsg' = "Failed to load tasks"
  /\ last' = Turn("tasksFailed", NoKey, FALSE)
  /\ UNCHANGED <<authChecked, weeks, selectedWeek, tasks, notesByTask, draftByTask,
                 taskIdSetRef, autosaveTimersRef, autosaveInFlightRef, savingKeys,
                 channels, weekCalls, noteCalls, saveCalls, dbWeeks, dbTasks, dbNotes, feed>>
  /\ UNCHANGED <<newOwner, newDesc, writeCalls>>

\* a success branch that drops the answer of a week no longer selected
LoadTasksDoneIfCurrent(c) ==
  /\ BagIn(c, taskCalls)
  /\ c.st = "ok"
  /\ taskCalls' = taskCalls (-) One(c)
  /\ errorMsg' = ""
  /\ IF c.week # selectedWeek
       THEN UNCHANGED <<tasks, taskIdSetRef, notesByTask, draftByTask, noteCalls>>
       ELSE /\ tasks' = c.data
            /\ taskIdSetRef' = Ids(c.data)
            /\ IF Len(c.data) = 0
                 THEN /\ notesByTask' = EmptyMap
                      /\ draftByTask' = EmptyMap
                      /\ noteCalls' = noteCalls
                 ELSE /\ noteCalls' = noteCalls (+) One(NoteCall(Ids(c.data)))
                      /\ UNCHANGED <<notesByTask, draftByTask>>
  /\ autosaveTimersRef' = AutosaveEffect(tasks', draftByTask', notesByTask')
  /\ last' = Turn("tasksDone", NoKey, FALSE)
  /\ UNCHANGED <<authChecked, weeks, selectedWeek, autosaveInFlightRef, savingKeys,
                 channels, weekCalls, saveCalls, dbWeeks, dbTasks, dbNotes, feed>>
  /\ UNCHANGED <<newOwner, newDesc, writeCalls>>

\* loadTasks after the await, success branch: setTasks, the id set, then
\* loadNotesForTasks up to its own await (or its empty-list return)
LoadTasksDone(c) ==
  /\ BagIn(c, taskCalls)
  /\ c.st = "ok"
  /\ taskCalls' = taskCalls (-) One(c)
  /\ tasks' = c.data
  /\ taskIdSetRef' = Ids(c.data)
  /\ errorMsg' = ""
  /\ IF Len(c.data) = 0
       THEN /\ notesByTask' = EmptyMap
            /\ draftByTask' = EmptyMap
            /\ noteCalls' = noteCalls
       ELSE /\ noteCalls' = noteCalls (+) One(NoteCall(Ids(c.data)))
            /\ UNCHANGED <<notesByTask, draftByTask>>
  /\ autosaveTimersRef' = AutosaveEffect(tasks', draftByTask', notesByTask')
  /\ last' = Turn("tasksDone", NoKey, FALSE)
  /\ UNCHANGED <<authChecked, weeks, selectedWeek, autosaveInFlightRef, savingKeys,
                 channels, weekCalls, saveCalls, dbWeeks, dbTasks, dbNotes, feed>>
  /\ UNCHANGED <<newOwner, newDesc, writeCalls>>

(***************************************************************************)
(* Note cache hydration                                                    *)
(***************************************************************************)
\* a first loop that visits only the first owner
DefaultNotesFirstOwner(taskIds) ==
  [k \in {makeKey(taskIds[i], ALL_OWNERS[1]) : i \in DOMAIN taskIds}
     |-> [note |-> EmptyText, updated_at |-> Undefined]]

\* first loop of loadNotesForTasks: defaults for every task id and both owners
DefaultNotes(taskIds) ==
  [k \in {makeKey(taskIds[i], ALL_OWNERS[j]) : i \in DOMAIN taskIds, j \in DOMAIN ALL_OWNERS}
     |-> [note |-> EmptyText, updated_at |-> Undefined]]
DefaultDraft(taskIds) ==
  [k \in {makeKey(taskIds[i], ALL_OWNERS[j]) : i \in DOMAIN taskIds, j \in DOMAIN ALL_OWNERS}
     |-> EmptyText]

HasTask(m, taskId) == \E k \in DOMAIN m : k[1] = taskId

\* second loop: each fetched row overwrites its default
RECURSIVE ApplyNoteRows(_, _)
ApplyNoteRows(nextNotes, rows) ==
  IF rows = << >> THEN nextNotes
  ELSE LET r == Head(rows)
       IN ApplyNoteRows(
            IF ~HasTask(nextNotes, r.task_id) THEN nextNotes
            ELSE Put(nextNotes, makeKey(r.task_id, r.owner),
                     [note |-> r.note, updated_at |-> StoreTime]),
            Tail(rows))
RECURSIVE ApplyDraftRows(_, _)
ApplyDraftRows(nextDraft, rows) ==
  IF rows = << >> THEN nextDraft
  ELSE LET r == Head(rows)
       IN ApplyDraftRows(
            IF ~HasTask(nextDraft, r.task_id) THEN nextDraft
            ELSE Put(nextDraft, makeKey(r.task_id, r.owner), r.note),
            Tail(rows))

\* a draft cache rebuilt without the second loop
NextDraftDefaults(taskIds, rows) == DefaultDraft(taskIds)

NextNotes(taskIds, rows) == ApplyNoteRows(DefaultNotes(taskIds), rows)
NextDraft(taskIds, rows) == ApplyDraftRows(DefaultDraft(taskIds), rows)

\* the store answers a notes fetch with the rows it holds at that moment
ServeNotes(c) ==
  /\ BagIn(c, noteCalls)
  /\ c.st = "sent"
  /\ noteCalls' = (noteCalls (-) One(c))
                    (+) One([c EXCEPT !.st = "ok", !.data = SelectNotes(dbNotes, c.taskIds)])
  /\ last' = Turn("gateway", NoKey, FALSE)
  /\ UNCHANGED <<page, weekCalls, taskCalls, saveCalls, dbWeeks, dbTasks, dbNotes, feed>>
  /\ UNCHANGED <<writeCalls>>

\* loadNotesForTasks after the await, error branch
LoadNotesFailed(c) ==
  /\ BagIn(c, noteCalls)
  /\ c.st = "sent"
  /\ noteCalls' = noteCalls (-) One(c)
  /\ errorMsg' = "Failed to load task notes"
  /\ last' = Turn("notesFailed", NoKey, FALSE)
  /\ UNCHANGED <<authChecked, weeks, selectedWeek, tasks, notesByTask, draftByTask,
                 taskIdSetRef, autosaveTimersRef, autosaveInFlightRef, savingKeys,
                 channels, weekCalls, taskCalls, saveCalls, dbWeeks, dbTasks, dbNotes, feed>>
  /\ UNCHANGED <<newOwner, newDesc, writeCalls>>

\* loadNotesForTasks after the await, success branch
LoadNotesDone(c) ==
  /\ BagIn(c, noteCalls)
  /\ c.st = "ok"
  /\ noteCalls' = noteCalls (-) One(c)
  /\ notesByTask' = NextNotes(c.taskIds, c.data)
  /\ draftByTask' = NextDraft(c.taskIds, c.data)
  /\ autosaveTimersRef' = AutosaveEffect(tasks, draftByTask', notesByTask')
  /\ last' = Turn("notesDone", NoKey,
                  \E k \in VisibleKeys(tasks) :
                     DraftOf(draftByTask, k) # SavedOf(notesByTask, k))
  /\ UNCHANGED <<authChecked, weeks, selectedWeek, tasks, errorMsg, taskIdSetRef,
                 autosaveInFlightRef, savingKeys, channels,
                 weekCalls, taskCalls, saveCalls, dbWeeks, dbTasks, dbNotes, feed>>
  /\ UNCHANGED <<newOwner, newDesc, writeCalls>>

(***************************************************************************)
(* Change feed                                                             *)
(***************************************************************************)
Subscribed(e) ==
  \E ch \in channels :
     /\ ch.table = e.table
     /\ e.table = "tasks" => ch.filter = e.ref

\* a callback that skips the membership test
AlwaysInterested(taskId, idSet) == TRUE

\* if (taskId && taskIdSetRef.current.has(taskId))
Interested(taskId, idSet) == Truthy(taskId) /\ taskId \in Range(idSet)

\* notesChannel callback
NoteEvent(e) ==
  /\ BagIn(e, feed)
  /\ e.table = "task_notes"
  /\ Subscribed(e)
  /\ feed' = feed (-) One(e)
  /\ IF Interested(e.ref, taskIdSetRef)
       THEN /\ CanCall
            /\ errorMsg' = ""
            /\ noteCalls' = noteCalls (+) One(NoteCall(taskIdSetRef))
       ELSE UNCHANGED <<errorMsg, noteCalls>>
  /\ last' = Turn("noteEvent", makeKey(e.ref, ""), Interested(e.ref, taskIdSetRef))
  /\ UNCHANGED <<authChecked, weeks, selectedWeek, tasks, notesByTask, draftByTask,
                 taskIdSetRef, autosaveTimersRef, autosaveInFlightRef, savingKeys,
                 channels, weekCalls, taskCalls, saveCalls, dbWeeks, dbTasks, dbNotes>>
  /\ UNCHANGED <<newOwner, newDesc, writeCalls>>

\* an event that finds no subscribed channel reaches no callback
EventUnheard(e) ==
  /\ BagIn(e, feed)
  /\ ~Subscribed(e)
  /\ feed' = feed (-) One(e)
  /\ last' = Turn("eventUnheard", makeKey(e.ref, ""), FALSE)
  /\ UNCHANGED <<page, weekCalls, taskCalls, noteCalls, saveCalls, dbWeeks, dbTasks, dbNotes>>
  /\ UNCHANGED <<writeCalls>>

\* another client of the store writes a note
OtherClientSaves(k, text) ==
  /\ CanPush
  /\ dbNotes' = UpsertNote(dbNotes, [task_id |-> k[1], owner |-> k[2], note |-> text])
  /\ feed' = feed (+) One(NoteEventOf(k[1]))
  /\ last' = Turn("otherSaves", k, FALSE)
  /\ UNCHANGED <<page, weekCalls, taskCalls, noteCalls, saveCalls, dbWeeks, dbTasks>>
  /\ UNCHANGED <<writeCalls>>

(***************************************************************************)
(* Saving a note                                                           *)
(***************************************************************************)
\* saveNote without its in-flight guard
NeverOverlapping(key, inFlight) == FALSE

\* if (autosaveInFlightRef.current.has(key)) return;
Overlapping(key, inFlight) == key \in inFlight

\* saveNote(taskId, owner, raw) up to its await
saveNote(key, raw) ==
  /\ errorMsg' = ""
  /\ IF Overlapping(key, autosaveInFlightRef)
       THEN UNCHANGED <<autosaveInFlightRef, savingKeys, saveCalls>>
       ELSE /\ autosaveInFlightRef' = autosaveInFlightRef \cup {key}
            /\ savingKeys' = savingKeys \cup {key}
            /\ saveCalls' = saveCalls (+) One(SaveCall(key[1], key[2], raw, trim(raw)))

\* the textarea's onChange: setDraftByTask, then the autosave effect
EditDraft(k, text) ==
  /\ k \in VisibleKeys(tasks)
  /\ text # DraftOf(draftByTask, k)
  /\ draftByTask' = Put(draftByTask, k, text)
  /\ autosaveTimersRef' = AutosaveEffect(tasks, draftByTask', notesByTask)
  /\ last' = Turn("edit", k, FALSE)
  /\ UNCHANGED <<authChecked, weeks, selectedWeek, tasks, errorMsg, notesByTask,
                 taskIdSetRef, autosaveInFlightRef, savingKeys, channels, gateway>>
  /\ UNCHANGED <<newOwner, newDesc>>

\* the "Save update" button: saveNote(t.id, owner) with the rendered draft
ClickSave(k) ==
  /\ k \in VisibleKeys(tasks)
  /\ ~Overlapping(k, autosaveInFlightRef) => CanCall
  /\ saveNote(k, DraftOf(draftByTask, k))
  /\ last' = Turn("clickSave", k, saveCalls' # saveCalls)
  /\ UNCHANGED <<authChecked, weeks, selectedWeek, tasks, notesByTask, draftByTask,
                 taskIdSetRef, autosaveTimersRef, channels,
                 weekCalls, taskCalls, noteCalls, dbWeeks, dbTasks, dbNotes, feed>>
  /\ UNCHANGED <<newOwner, newDesc, writeCalls>>

\* time passes: no timer is due, and every live timer comes closer
Tick ==
  /\ DOMAIN autosaveTimersRef # {}
  /\ \A k \in DOMAIN autosaveTimersRef : autosaveTimersRef[k].left > 0
  /\ autosaveTimersRef' =
       [k \in DOMAIN autosaveTimersRef |->
          [autosaveTimersRef[k] EXCEPT !.left = IF @ > TickMs THEN @ - TickMs ELSE 0]]
  /\ UNCHANGED <<last, authChecked, weeks, selectedWeek, tasks, errorMsg, notesByTask,
                 draftByTask, taskIdSetRef, autosaveInFlightRef, savingKeys, channels,
                 gateway>>
  /\ UNCHANGED <<newOwner, newDesc>>

\* the setTimeout callback of the autosave effect
TimerFires(k) ==
  /\ k \in DOMAIN autosaveTimersRef
  /\ autosaveTimersRef[k].left = 0
  /\ LET latestDraft == autosaveTimersRef[k].draft
         latestSaved == autosaveTimersRef[k].saved
     IN IF latestDraft # latestSaved
          THEN /\ ~Overlapping(k, autosaveInFlightRef) => CanCall
               /\ saveNote(k, latestDraft)
          ELSE UNCHANGED <<errorMsg, autosaveInFlightRef, savingKeys, saveCalls>>
  /\ autosaveTimersRef' =
       [x \in (DOMAIN autosaveTimersRef) \ {k} |-> autosaveTimersRef[x]]
  /\ last' = Turn(IF last = Turn("edit", k, FALSE) THEN "burstFlushed" ELSE "timerFires",
                  k, saveCalls' # saveCalls)
  /\ UNCHANGED <<authChecked, weeks, selectedWeek, tasks, notesByTask, draftByTask,
                 taskIdSetRef, channels, weekCalls, taskCalls, noteCalls,
                 dbWeeks, dbTasks, dbNotes, feed>>
  /\ UNCHANGED <<newOwner, newDesc, writeCalls>>

\* the store applies the write and pushes the change
ServeSave(c) ==
  /\ BagIn(c, saveCalls)
  /\ c.st = "sent"
  /\ CanPush
  /\ dbNotes' = UpsertNote(dbNotes, [task_id |-> c.task_id, owner |-> c.owner, note |-> c.note])
  /\ feed' = feed (+) One(NoteEventOf(c.task_id))
  /\ saveCalls' = (saveCalls (-) One(c)) (+) One([c EXCEPT !.st = "ok"])
  /\ last' = Turn("gateway", NoKey, FALSE)
  /\ UNCHANGED <<page, weekCalls, taskCalls, noteCalls, dbWeeks, dbTasks>>
  /\ UNCHANGED <<writeCalls>>

\* an error branch that leaves the key marked and the flag set
SaveFailedKeepsMarker(c) ==
  /\ BagIn(c, saveCalls)
  /\ c.st = "sent"
  /\ saveCalls' = saveCalls (-) One(c)
  /\ errorMsg' = "Failed to save note"
  /\ last' = Turn("saveFailed", makeKey(c.task_id, c.owner), FALSE)
  /\ UNCHANGED <<authChecked, weeks, selectedWeek, tasks, notesByTask, draftByTask,
                 taskIdSetRef, autosaveTimersRef, autosaveInFlightRef, savingKeys,
                 channels, weekCalls, taskCalls, noteCalls, dbWeeks, dbTasks, dbNotes, feed>>
  /\ UNCHANGED <<newOwner, newDesc, writeCalls>>

\* saveNote after the await, error branch
SaveFailed(c) ==
  /\ BagIn(c, saveCalls)
  /\ c.st = "sent"
  /\ saveCalls' = saveCalls (-) One(c)
  /\ autosaveInFlightRef' = autosaveInFlightRef \ {makeKey(c.task_id, c.owner)}
  /\ savingKeys' = savingKeys \ {makeKey(c.task_id, c.owner)}
  /\ errorMsg' = "Failed to save note"
  /\ last' = Turn("saveFailed", makeKey(c.task_id, c.owner), FALSE)
  /\ UNCHANGED <<authChecked, weeks, selectedWeek, tasks, notesByTask, draftByTask,
                 taskIdSetRef, autosaveTimersRef, channels,
                 weekCalls, taskCalls, noteCalls, dbWeeks, dbTasks, dbNotes, feed>>
  /\ UNCHANGED <<newOwner, newDesc, writeCalls>>

\* saveNote after the await, success branch: the optimistic update, then the
\* autosave effect
SaveDone(c) ==
  /\ BagIn(c, saveCalls)
  /\ c.st = "ok"
  /\ saveCalls' = saveCalls (-) One(c)
  /\ autosaveInFlightRef' = autosaveInFlightRef \ {makeKey(c.task_id, c.owner)}
  /\ savingKeys' = savingKeys \ {makeKey(c.task_id, c.owner)}
  /\ notesByTask' = Put(notesByTask, makeKey(c.task_id, c.owner),
                        [note |-> c.note, updated_at |-> ClientNow])
  /\ autosaveTimersRef' = AutosaveEffect(tasks, draftByTask, notesByTask')
  /\ last' = Turn("saveDone", makeKey(c.task_id, c.owner),
                  DraftOf(draftByTask, makeKey(c.task_id, c.owner)) = c.raw)
  /\ UNCHANGED <<authChecked, weeks, selectedWeek, tasks, errorMsg, draftByTask,
                 taskIdSetRef, channels, weekCalls, taskCalls, noteCalls,
                 dbWeeks, dbTasks, dbNotes, feed>>
  /\ UNCHANGED <<newOwner, newDesc, writeCalls>>

(***************************************************************************)
(* Task mutations                                                          *)
(***************************************************************************)
\* a task write under way: .insert({...}) or .update({status}).eq("id", taskId)
InsertCall(weekNum, owner, desc) ==
  [kind |-> "insert", id |-> 0, week_number |-> weekNum, owner |-> owner,
   description |-> desc, status |-> "Pending", st |-> "sent"]
UpdateCall(taskId, status) ==
  [kind |-> "update", id |-> taskId, week_number |-> Null, owner |-> "",
   description |-> EmptyText, status |-> status, st |-> "sent"]

TaskEventOf(weekNum) == [table |-> "tasks", ref |-> weekNum]

\* the id and the created_at the store gives a new row
NewId(db) == 1 + Cardinality(db)
\* the store's insert and update of tasks rows
InsertTask(db, c) ==
  db \cup {[id |-> NewId(db), week_number |-> c.week_number, owner |-> c.owner,
            description |-> c.description, status |-> c.status,
            created_at |-> NewId(db)]}
UpdateTask(db, c) ==
  {IF t.id = c.id THEN [t EXCEPT !.status = c.status] ELSE t : t \in db}
\* the change events of a write: one for each row written
EventsOf(db, c) ==
  IF c.kind = "insert" THEN One(TaskEventOf(c.week_number))
  ELSE IF \E t \in db : t.id = c.id
         THEN One(TaskEventOf((CHOOSE t \in db : t.id = c.id).week_number))
         ELSE EmptyBag

\* the select's onChange: setNewOwner
SetNewOwner(o) ==
  /\ authChecked
  /\ o # newOwner
  /\ newOwner' = o
  /\ last' = Turn("form", NoKey, FALSE)
  /\ UNCHANGED <<authChecked, weeks, selectedWeek, tasks, errorMsg, notesByTask,
                 draftByTask, taskIdSetRef, autosaveTimersRef, autosaveInFlightRef,
                 savingKeys, newDesc, channels, gateway>>

\* the input's onChange: setNewDesc
SetNewDesc(text) ==
  /\ authChecked
  /\ text # newDesc
  /\ newDesc' = text
  /\ last' = Turn("form", NoKey, FALSE)
  /\ UNCHANGED <<authChecked, weeks, selectedWeek, tasks, errorMsg, notesByTask,
                 draftByTask, taskIdSetRef, autosaveTimersRef, autosaveInFlightRef,
                 savingKeys, newOwner, channels, gateway>>

\* if (!selectedWeek) return; ... if (!desc) return;
Rejected(weekNum, desc) == ~Truthy(weekNum) \/ desc = EmptyText

\* addTask up to its await
addTask ==
  /\ authChecked
  /\ LET desc == trim(newDesc)
     IN IF Rejected(selectedWeek, desc)
          THEN UNCHANGED <<errorMsg, writeCalls>>
          ELSE /\ CanCall
               /\ Cardinality(dbTasks) + BagCardinality(writeCalls) < MaxTasks
               /\ errorMsg' = ""
               /\ writeCalls' = writeCalls (+) One(InsertCall(selectedWeek, newOwner, desc))
  /\ last' = Turn("addTask", NoKey, writeCalls' # writeCalls)
  /\ UNCHANGED <<authChecked, weeks, selectedWeek, tasks, notesByTask, draftByTask,
                 taskIdSetRef, autosaveTimersRef, autosaveInFlightRef, savingKeys,
                 newOwner, newDesc, channels, weekCalls, taskCalls, noteCalls,
                 saveCalls, dbWeeks, dbTasks, dbNotes, feed>>

\* updateStatus(taskId, status) up to its await
updateStatus(taskId, status) ==
  /\ CanCall
  /\ errorMsg' = ""
  /\ writeCalls' = writeCalls (+) One(UpdateCall(taskId, status))
  /\ UNCHANGED <<authChecked, weeks, selectedWeek, tasks, notesByTask, draftByTask,
                 taskIdSetRef, autosaveTimersRef, autosaveInFlightRef, savingKeys,
                 newOwner, newDesc, channels, weekCalls, taskCalls, noteCalls,
                 saveCalls, dbWeeks, dbTasks, dbNotes, feed>>

\* a status button of the task row i
ClickStatus(i, status) ==
  /\ i \in DOMAIN tasks
  /\ updateStatus(tasks[i].id, status)
  /\ last' = Turn("updateStatus", makeKey(tasks[i].id, ""), FALSE)

\* the checkbox of the task row i: setTaskCompleted(t.id, e.target.checked)
ToggleCompleted(i) ==
  /\ i \in DOMAIN tasks
  /\ LET completed == ~(tasks[i].status = "Completed")
     IN updateStatus(tasks[i].id, IF completed THEN "Completed" ELSE "Pending")
  /\ last' = Turn("setTaskCompleted", makeKey(tasks[i].id, ""), FALSE)

\* the store applies a task write and pushes the change
ServeWrite(c) ==
  /\ BagIn(c, writeCalls)
  /\ c.st = "sent"
  /\ BagCardinality(feed) + BagCardinality(EventsOf(dbTasks, c)) <= MaxEvents
  /\ dbTasks' = IF c.kind = "insert" THEN InsertTask(dbTasks, c) ELSE UpdateTask(dbTasks, c)
  /\ feed' = feed (+) EventsOf(dbTasks, c)
  /\ writeCalls' = (writeCalls (-) One(c)) (+) One([c EXCEPT !.st = "ok"])
  /\ last' = Turn("gateway", NoKey, FALSE)
  /\ UNCHANGED <<page, weekCalls, taskCalls, noteCalls, saveCalls, dbWeeks, dbNotes>>

\* an error branch that also empties the task list
WriteFailedClears(c) ==
  /\ BagIn(c, writeCalls)
  /\ c.st = "sent"
  /\ writeCalls' = writeCalls (-) One(c)
  /\ errorMsg' = IF c.kind = "insert" THEN "Failed to add task" ELSE "Failed to update task"
  /\ tasks' = << >>
  /\ autosaveTimersRef' = EmptyMap
  /\ last' = Turn("writeFailed", NoKey, c.kind = "insert")
  /\ UNCHANGED <<authChecked, weeks, selectedWeek, notesByTask, draftByTask,
                 taskIdSetRef, autosaveInFlightRef, savingKeys,
                 newOwner, newDesc, channels, weekCalls, taskCalls, noteCalls,
                 saveCalls, dbWeeks, dbTasks, dbNotes, feed>>

\* addTask, setTaskCompleted and updateStatus after the await, error branch
WriteFailed(c) ==
  /\ BagIn(c, writeCalls)
  /\ c.st = "sent"
  /\ writeCalls' = writeCalls (-) One(c)
  /\ errorMsg' = IF c.kind = "insert" THEN "Failed to add task" ELSE "Failed to update task"
  /\ last' = Turn("writeFailed", NoKey, c.kind = "insert")
  /\ UNCHANGED <<authChecked, weeks, selectedWeek, tasks, notesByTask, draftByTask,
                 taskIdSetRef, autosaveTimersRef, autosaveInFlightRef, savingKeys,
                 newOwner, newDesc, channels, weekCalls, taskCalls, noteCalls,
                 saveCalls, dbWeeks, dbTasks, dbNotes, feed>>

\* after the await, success: addTask clears the description, the updates
\* do nothing more
WriteDone(c) ==
  /\ BagIn(c, writeCalls)
  /\ c.st = "ok"
  /\ writeCalls' = writeCalls (-) One(c)
  /\ newDesc' = IF c.kind = "insert" THEN EmptyText ELSE newDesc
  /\ last' = Turn("writeDone", NoKey, c.kind = "insert")
  /\ UNCHANGED <<authChecked, weeks, selectedWeek, tasks, errorMsg, notesByTask,
                 draftByTask, taskIdSetRef, autosaveTimersRef, autosaveInFlightRef,
                 savingKeys, newOwner, channels, weekCalls, taskCalls, noteCalls,
                 saveCalls, dbWeeks, dbTasks, dbNotes, feed>>

\* a tasks channel callback that reloads nothing
TaskEventIgnored(e) ==
  /\ BagIn(e, feed)
  /\ e.table = "tasks"
  /\ Subscribed(e)
  /\ feed' = feed (-) One(e)
  /\ last' = Turn("taskEvent", makeKey(e.ref, ""), FALSE)
  /\ UNCHANGED <<page, weekCalls, taskCalls, noteCalls, saveCalls, writeCalls,
                 dbWeeks, dbTasks, dbNotes>>

\* tasksChannel callback: loadTasks(selectedWeek) of the subscribing render,
\* up to its await
TaskEvent(e) ==
  /\ BagIn(e, feed)
  /\ e.table = "tasks"
  /\ Subscribed(e)
  /\ CanCall
  /\ feed' = feed (-) One(e)
  /\ errorMsg' = ""
  /\ taskCalls' = taskCalls (+) One(TaskCall(e.ref))
  /\ last' = Turn("taskEvent", makeKey(e.ref, ""), TRUE)
  /\ UNCHANGED <<authChecked, weeks, selectedWeek, tasks, notesByTask, draftByTask,
                 taskIdSetRef, autosaveTimersRef, autosaveInFlightRef, savingKeys,
                 newOwner, newDesc, channels, weekCalls, noteCalls, saveCalls,
                 writeCalls, dbWeeks, dbTasks, dbNotes>>

(***************************************************************************)
(* Specification                                                           *)
(***************************************************************************)
Next ==
  \/ AuthConfirmed
  \/ \E c \in BagToSet(weekCalls) : ServeWeeks(c)
  \/ \E c \in BagToSet(weekCalls) : LoadWeeksFailed(c)
  \/ \E c \in BagToSet(weekCalls) : LoadWeeksDone(c)
  \/ \E w \in WeekNumbers : SelectWeek(w)
  \/ \E c \in BagToSet(taskCalls) : ServeTasks(c)
  \/ \E c \in BagToSet(taskCalls) : LoadTasksFailed(c)
  \/ \E c \in BagToSet(taskCalls) : LoadTasksDone(c)
  \/ \E c \in BagToSet(noteCalls) : ServeNotes(c)
  \/ \E c \in BagToSet(noteCalls) : LoadNotesFailed(c)
  \/ \E c \in BagToSet(noteCalls) : LoadNotesDone(c)
  \/ \E e \in BagToSet(feed) : NoteEvent(e)
  \/ \E e \in BagToSet(feed) : EventUnheard(e)
  \/ \E k \in OtherKeys, text \in RemoteTexts : OtherClientSaves(k, text)
  \/ \E k \in Keys, text \in EditTexts : EditDraft(k, text)
  \/ \E k \in Keys : ClickSave(k)
  \/ Tick
  \/ \E k \in Keys : TimerFires(k)
  \/ \E c \in BagToSet(saveCalls) : ServeSave(c)
  \/ \E c \in BagToSet(saveCalls) : SaveFailed(c)
  \/ \E c \in BagToSet(saveCalls) : SaveDone(c)
  \/ \E o \in Owners : SetNewOwner(o)
  \/ \E text \in NewDescs : SetNewDesc(text)
  \/ addTask
  \/ \E i \in 1..MaxTasks, status \in Statuses : ClickStatus(i, status)
  \/ \E i \in 1..MaxTasks : ToggleCompleted(i)
  \/ \E c \in BagToSet(writeCalls) : ServeWrite(c)
  \/ \E c \in BagToSet(writeCalls) : WriteFailed(c)
  \/ \E c \in BagToSet(writeCalls) : WriteDone(c)
  \/ \E e \in BagToSet(feed) : TaskEvent(e)

\* the page with a user of every editor
Spec == Init /\ [][Next]_vars

(***************************************************************************)
(* Loading and the change feed: the page from its mount, with a user who   *)
(* selects weeks and types nothing, and the other client writing notes.    *)
(***************************************************************************)
NextOfLoad ==
  \/ AuthConfirmed
  \/ \E c \in BagToSet(weekCalls) : ServeWeeks(c)
  \/ \E c \in BagToSet(weekCalls) : LoadWeeksFailed(c)
  \/ \E c \in BagToSet(weekCalls) : LoadWeeksDone(c)
  \/ \E w \in WeekNumbers : SelectWeek(w)
  \/ \E c \in BagToSet(taskCalls) : ServeTasks(c)
  \/ \E c \in BagToSet(taskCalls) : LoadTasksFailed(c)
  \/ \E c \in BagToSet(taskCalls) : LoadTasksDone(c)
  \/ \E c \in BagToSet(noteCalls) : ServeNotes(c)
  \/ \E c \in BagToSet(noteCalls) : LoadNotesFailed(c)
  \/ \E c \in BagToSet(noteCalls) : LoadNotesDone(c)
  \/ \E e \in BagToSet(feed) : NoteEvent(e)
  \/ \E e \in BagToSet(feed) : EventUnheard(e)
  \/ \E k \in OtherKeys, text \in RemoteTexts : OtherClientSaves(k, text)

SpecLoad == Init /\ [][NextOfLoad]_vars


(***************************************************************************)
(* The note editors of one loaded week: the page after the session was     *)
(* confirmed, week 1 was selected, its tasks were loaded and their notes   *)
(* hydrated from a store that holds no note yet.  The user types into one  *)
(* editor and may press either Save button.                                *)
(***************************************************************************)
InitNotes ==
  /\ authChecked = TRUE
  /\ weeks = <<1, 2, 3>>
  /\ selectedWeek = 1
  /\ tasks = SelectTasks(StoreTasks, 1)
  /\ errorMsg = ""
  /\ notesByTask = NextNotes(Ids(tasks), << >>)
  /\ draftByTask = NextDraft(Ids(tasks), << >>)
  /\ taskIdSetRef = Ids(tasks)
  /\ autosaveTimersRef = EmptyMap
  /\ autosaveInFlightRef = {}
  /\ savingKeys = {}
  /\ newOwner = OWNER_A
  /\ newDesc = EmptyText
  /\ channels = RealtimeEffect(TRUE, 1)
  /\ weekCalls = EmptyBag
  /\ taskCalls = EmptyBag
  /\ noteCalls = EmptyBag
  /\ saveCalls = EmptyBag
  /\ writeCalls = EmptyBag
  /\ dbWeeks = {1, 2, 3}
  /\ dbTasks = StoreTasks
  /\ dbNotes = EmptyBag
  /\ feed = EmptyBag
  /\ last = Turn("notesDone", NoKey, FALSE)

NextOfNotes ==
  \/ \E c \in BagToSet(noteCalls) : ServeNotes(c)
  \/ \E c \in BagToSet(noteCalls) : LoadNotesFailed(c)
  \/ \E c \in BagToSet(noteCalls) : LoadNotesDone(c)
  \/ \E e \in BagToSet(feed) : NoteEvent(e)
  \/ \E k \in TypedKeys, text \in EditTexts : EditDraft(k, text)
  \/ \E k \in Keys : ClickSave(k)
  \/ Tick
  \/ \E k \in Keys : TimerFires(k)
  \/ \E c \in BagToSet(saveCalls) : ServeSave(c)
  \/ \E c \in BagToSet(saveCalls) : SaveFailed(c)
  \/ \E c \in BagToSet(saveCalls) : SaveDone(c)

SpecNotes == InitNotes /\ [][NextOfNotes]_vars

\* the same page with a user who switches weeks while loads and saves are
\* under way, presses Save rather than waiting for the timer, and a network
\* that fails no call
NextOfSwitch ==
  \/ \E w \in WeekNumbers : SelectWeek(w)
  \/ \E c \in BagToSet(taskCalls) : ServeTasks(c)
  \/ \E c \in BagToSet(taskCalls) : LoadTasksDone(c)
  \/ \E c \in BagToSet(noteCalls) : ServeNotes(c)
  \/ \E c \in BagToSet(noteCalls) : LoadNotesDone(c)
  \/ \E e \in BagToSet(feed) : NoteEvent(e)
  \/ \E k \in TypedKeys, text \in PlainTexts : EditDraft(k, text)
  \/ \E k \in TypedKeys : ClickSave(k)
  \/ \E c \in BagToSet(saveCalls) : ServeSave(c)
  \/ \E c \in BagToSet(saveCalls) : SaveDone(c)

SpecSwitch == InitNotes /\ [][NextOfSwitch]_vars

\* the same page with a user who types into both editors of the task, no
\* text that trim would change, and leaves saving to the timers
NextOfEditors ==
  \/ \E c \in BagToSet(noteCalls) : ServeNotes(c)
  \/ \E c \in BagToSet(noteCalls) : LoadNotesDone(c)
  \/ \E e \in BagToSet(feed) : NoteEvent(e)
  \/ \E k \in Keys, text \in PlainTexts : EditDraft(k, text)
  \/ Tick
  \/ \E k \in Keys : TimerFires(k)
  \/ \E c \in BagToSet(saveCalls) : ServeSave(c)
  \/ \E c \in BagToSet(saveCalls) : SaveFailed(c)
  \/ \E c \in BagToSet(saveCalls) : SaveDone(c)

SpecEditors == InitNotes /\ [][NextOfEditors]_vars

(***************************************************************************)
(* The task list of one week: the page after its weeks load selected the   *)
(* first week, week 0, of a store that has one (nothing is loaded for it), *)
(* or after the user selected the last week, which has no task yet, and    *)
(* its empty task list was loaded.  The user fills the new-task form, adds *)
(* a task and sets its status.                                             *)
(***************************************************************************)
InitTasks ==
  /\ authChecked = TRUE
  /\ dbWeeks \in StoreWeeks \ {{}}
  /\ weeks = SelectWeeks(dbWeeks)
  /\ selectedWeek = IF 0 \in dbWeeks THEN SelectionAfter(weeks, Null)
                                      ELSE weeks[Len(weeks)]
  /\ tasks = IF Truthy(selectedWeek) THEN SelectTasks(StoreTasks, selectedWeek) ELSE << >>
  /\ errorMsg = ""
  /\ notesByTask = IF tasks = << >> THEN EmptyMap ELSE NextNotes(Ids(tasks), << >>)
  /\ draftByTask = IF tasks = << >> THEN EmptyMap ELSE NextDraft(Ids(tasks), << >>)
  /\ taskIdSetRef = Ids(tasks)
  /\ autosaveTimersRef = EmptyMap
  /\ autosaveInFlightRef = {}
  /\ savingKeys = {}
  /\ newOwner = OWNER_A
  /\ newDesc = EmptyText
  /\ channels = RealtimeEffect(TRUE, selectedWeek)
  /\ weekCalls = EmptyBag
  /\ taskCalls = EmptyBag
  /\ noteCalls = EmptyBag
  /\ saveCalls = EmptyBag
  /\ writeCalls = EmptyBag
  /\ dbTasks = StoreTasks
  /\ dbNotes = EmptyBag
  /\ feed = EmptyBag
  /\ last = Turn("loaded", NoKey, FALSE)

NextOfTasks ==
  \/ \E c \in BagToSet(taskCalls) : ServeTasks(c)
  \/ \E c \in BagToSet(taskCalls) : LoadTasksFailed(c)
  \/ \E c \in BagToSet(taskCalls) : LoadTasksDone(c)
  \/ \E c \in BagToSet(noteCalls) : ServeNotes(c)
  \/ \E c \in BagToSet(noteCalls) : LoadNotesDone(c)
  \/ \E o \in Owners : SetNewOwner(o)
  \/ \E text \in NewDescs : SetNewDesc(text)
  \/ addTask
  \/ \E i \in 1..MaxTasks, status \in Statuses : ClickStatus(i, status)
  \/ \E i \in 1..MaxTasks : ToggleCompleted(i)
  \/ \E c \in BagToSet(writeCalls) : ServeWrite(c)
  \/ \E c \in BagToSet(writeCalls) : WriteFailed(c)
  \/ \E c \in BagToSet(writeCalls) : WriteDone(c)
  \/ \E e \in BagToSet(feed) : TaskEvent(e)

SpecTasks == InitTasks /\ [][NextOfTasks]_vars

\* the same page with a user who adds tasks and sets no status
NextOfAdd ==
  \/ \E c \in BagToSet(taskCalls) : ServeTasks(c)
  \/ \E c \in BagToSet(taskCalls) : LoadTasksFailed(c)
  \/ \E c \in BagToSet(taskCalls) : LoadTasksDone(c)
  \/ \E c \in BagToSet(noteCalls) : ServeNotes(c)
  \/ \E c \in BagToSet(noteCalls) : LoadNotesDone(c)
  \/ \E o \in Owners : SetNewOwner(o)
  \/ \E text \in NewDescs : SetNewDesc(text)
  \/ addTask
  \/ \E c \in BagToSet(writeCalls) : ServeWrite(c)
  \/ \E c \in BagToSet(writeCalls) : WriteFailed(c)
  \/ \E c \in BagToSet(writeCalls) : WriteDone(c)
  \/ \E e \in BagToSet(feed) : TaskEvent(e)

SpecAdd == InitTasks /\ [][NextOfAdd]_vars

(***************************************************************************)
(* Properties                                                              *)
(***************************************************************************)
\* the note writes under way for a key, and the store's rows of a key
WritesInFlight(k) ==
  BagCardinality([c \in {x \in BagToSet(saveCalls) : makeKey(x.task_id, x.owner) = k}
                    |-> saveCalls[c]])
RowsOf(k) ==
  BagCardinality([r \in {x \in BagToSet(dbNotes) : makeKey(x.task_id, x.owner) = k}
                    |-> dbNotes[r]])
Dirty(k) == DraftOf(draftByTask, k) # SavedOf(notesByTask, k)

\* C1: for every key, whatever the interleaving of timer-triggered saves and
\* "Save update" clicks, at most one note write for the key is under way; a
\* save request that arrives while one is under way issues no write.
C1_OneWriteInFlight ==
  /\ \A k \in Keys : WritesInFlight(k) <= 1
  /\ (last.op \in {"clickSave", "timerFires", "burstFlushed"} /\ ~last.flag) =>
        WritesInFlight(last.key) = 1

\* a timer-triggered save request was dropped because the write that a click
\* started for the same key is still under way
C1_Witness ==
  /\ last.op = "timerFires"
  /\ ~last.flag
  /\ WritesInFlight(last.key) = 1
  /\ last.key \in autosaveInFlightRef

\* C3: after any sequence of note saves the store holds at most one
\* task_notes row per (task id, owner); saving the same text again adds no row.
C3_OneRowPerPair == \A k \in Keys : RowsOf(k) <= 1

\* the store has applied a second write of the text the page already cached
\* from an earlier save of the same key
C3_Witness ==
  \E c \in BagToSet(saveCalls) :
     LET k == makeKey(c.task_id, c.owner)
     IN /\ c.st = "ok"
        /\ k \in DOMAIN notesByTask
        /\ notesByTask[k].updated_at = ClientNow
        /\ notesByTask[k].note = c.note
        /\ RowsOf(k) = 1

\* the turn in which the page learns that the note write c failed
IsSaveFailure(c) == c.st = "sent" /\ saveCalls' = saveCalls (-) One(c)

\* C5: when a note write fails, the key's in-flight marker is released, its
\* saving flag is cleared, an error message is set, and neither the note cache
\* nor the draft cache changes.
C5_FailureLeavesCaches ==
  [][\A c \in BagToSet(saveCalls) :
       IsSaveFailure(c) =>
         /\ makeKey(c.task_id, c.owner) \notin autosaveInFlightRef'
         /\ makeKey(c.task_id, c.owner) \notin savingKeys'
         /\ errorMsg' = "Failed to save note"
         /\ notesByTask' = notesByTask
         /\ draftByTask' = draftByTask]_vars

\* a write has just failed for a key whose draft differs from its saved note
C5_Witness ==
  /\ last.op = "saveFailed"
  /\ errorMsg = "Failed to save note"
  /\ Dirty(last.key)
  /\ last.key \notin autosaveInFlightRef
  /\ last.key \notin savingKeys

\* the latest turn was an edit of k's draft: the run of edits of k that ends
\* there, with nothing but time since
BurstOf(k) == last = Turn("edit", k, FALSE)
\* the turn is an edit of k's draft
EditsDraft(k) == last' = Turn("edit", k, FALSE) /\ draftByTask' # draftByTask
\* the turn is the expiry of k's timer
FiresFor(k) ==
  /\ k \in DOMAIN autosaveTimersRef
  /\ k \notin DOMAIN autosaveTimersRef'
  /\ last'.key = k
  /\ last'.op \in {"timerFires", "burstFlushed"}
\* the write of k's current draft, as saveNote sends it
WriteOfDraft(k) ==
  SaveCall(k[1], k[2], DraftOf(draftByTask, k), trim(DraftOf(draftByTask, k)))

\* C2, as claimed: N >= 1 successive edits of one key's draft, each within the
\* 1.5 s window of the one before and with no other event in between, produce
\* exactly one write for the key, carrying the final draft (as saveNote trims
\* it): after such a run a flush is pending, and its expiry issues that write.
C2_ExactlyOneWrite ==
  /\ [](\A k \in Keys : BurstOf(k) => k \in DOMAIN autosaveTimersRef)
  /\ [][\A k \in Keys :
          (BurstOf(k) /\ FiresFor(k)) => saveCalls' = saveCalls (+) One(WriteOfDraft(k))]_vars

\* C2, amended: the edits themselves issue no write and leave a timer pending
\* for the key exactly when the final draft differs from the saved note; the
\* expiry of that timer issues exactly one write, carrying the trimmed final
\* draft, unless a write for the key is under way, and then it issues none.
C2_Coalesced ==
  /\ [](\A k \in Keys : BurstOf(k) => (k \in DOMAIN autosaveTimersRef <=> Dirty(k)))
  /\ [][\A k \in Keys :
          /\ EditsDraft(k) => saveCalls' = saveCalls
          /\ (BurstOf(k) /\ FiresFor(k)) =>
                IF k \in autosaveInFlightRef
                  THEN saveCalls' = saveCalls
                  ELSE saveCalls' = saveCalls (+) One(WriteOfDraft(k))]_vars

\* the timer of a run of edits has expired and sent the one write, which
\* carries the trimmed draft
C2_Witness ==
  /\ last.op = "burstFlushed"
  /\ last.flag
  /\ \E c \in BagToSet(saveCalls) :
        /\ makeKey(c.task_id, c.owner) = last.key
        /\ c.st = "sent"
        /\ c.raw = DraftOf(draftByTask, last.key)
        /\ c.note = trim(c.raw)
        /\ c.note # c.raw

\* C4, as claimed: after a note write for a key fails with the draft still
\* different from the saved note, a debounce timer is armed again for the
\* key, so that a later expiry retries the save.
C4_TimerRearmedAfterFailure ==
  (last.op = "saveFailed" /\ last.key \in VisibleKeys(tasks) /\ Dirty(last.key))
    => last.key \in DOMAIN autosaveTimersRef

\* C6, as claimed: when a note write succeeds and the draft was not edited
\* while it was under way, the key is Clean: the cache entry has a fresh
\* timestamp, the saving flag is false, the draft equals the cached note, and
\* no further write is scheduled.
C6_SavedMeansClean ==
  (last.op = "saveDone" /\ last.flag) =>
     /\ last.key \in DOMAIN notesByTask
     /\ notesByTask[last.key].updated_at = ClientNow
     /\ last.key \notin savingKeys
     /\ ~Dirty(last.key)
     /\ last.key \notin DOMAIN autosaveTimersRef

\* the turn in which a hydration's answer c is applied
IsHydration(c) == c.st = "ok" /\ noteCalls' = noteCalls (-) One(c)
\* the rows the answer c holds for the pair k
FetchedFor(c, k) == {r \in Range(c.data) : makeKey(r.task_id, r.owner) = k}
\* the pairs of the task ids the hydration c was asked for
PairsOf(c) == Range(c.taskIds) \X Owners

\* C7: after a hydration completes successfully the note cache holds exactly
\* one entry for every (task id, owner) of the hydrated task ids and both
\* owners, the fetched row's note if there is a row, else an empty note with
\* no timestamp; a task load that finds no task leaves the cache empty.
C7_OneEntryPerPair ==
  [][/\ \A c \in BagToSet(noteCalls) :
          IsHydration(c) =>
            /\ DOMAIN notesByTask' = PairsOf(c)
            /\ \A k \in PairsOf(c) :
                 IF FetchedFor(c, k) = {}
                   THEN notesByTask'[k] = [note |-> EmptyText, updated_at |-> Undefined]
                   ELSE \E r \in FetchedFor(c, k) :
                          notesByTask'[k] = [note |-> r.note, updated_at |-> StoreTime]
     /\ \A c \in BagToSet(taskCalls) :
          (c.st = "ok" /\ c.data = << >> /\ taskCalls' = taskCalls (-) One(c)) =>
             DOMAIN notesByTask' = {}]_vars

\* a hydration has filled the cache with a fetched note and with a default
C7_Witness ==
  /\ last.op = "notesDone"
  /\ \E k \in DOMAIN notesByTask : notesByTask[k].updated_at = StoreTime
  /\ \E k \in DOMAIN notesByTask : notesByTask[k].updated_at = Undefined

\* C8: when a hydration completes successfully the draft cache is replaced:
\* every hydrated pair's draft is the fetched note (empty without a row), so
\* every visible key is Clean, whatever was typed and not yet flushed.
C8_DraftsMirrorNotes ==
  [][\A c \in BagToSet(noteCalls) :
       IsHydration(c) =>
         /\ DOMAIN draftByTask' = PairsOf(c)
         /\ \A k \in PairsOf(c) :
              /\ draftByTask'[k] = SavedOf(notesByTask', k)
              /\ IF FetchedFor(c, k) = {} THEN draftByTask'[k] = EmptyText
                 ELSE \E r \in FetchedFor(c, k) : draftByTask'[k] = r.note
         /\ \A k \in VisibleKeys(tasks') : ~Dirty(k)']_vars

\* a hydration has replaced a draft that differed from its saved note
C8_Witness ==
  /\ last = Turn("notesDone", NoKey, TRUE)
  /\ \A k \in VisibleKeys(tasks) : ~Dirty(k)
  /\ \E k \in VisibleKeys(tasks) : draftByTask[k] # EmptyText

\* the gateway calls under way
calls == <<weekCalls, taskCalls, noteCalls, saveCalls, writeCalls>>

\* C9: a note change event whose task id is not in the visible task-id set
\* triggers no fetch and changes no state; one whose task id is in the set
\* triggers a hydration of the whole visible set.
C9_EventScope ==
  [][\A e \in BagToSet(feed) :
       (e.table = "task_notes" /\ Subscribed(e) /\ feed' = feed (-) One(e)) =>
          IF e.ref \in Range(Ids(tasks))
            THEN noteCalls' = noteCalls (+) One(NoteCall(Ids(tasks)))
            ELSE page' = page /\ calls' = calls]_vars

\* the page, showing a task, has ignored an event about another task
C9_Witness ==
  /\ last.op = "noteEvent"
  /\ ~last.flag
  /\ tasks # << >>
  /\ last.key[1] \notin Range(Ids(tasks))

\* C10: a failed weeks, tasks or notes fetch sets an error message and leaves
\* what it would have replaced as it was: the weeks and the selection; the
\* task list, the visible id set and both caches; both caches.
C10_FailedFetchKeepsState ==
  [][/\ \A c \in BagToSet(weekCalls) :
          (c.st = "sent" /\ weekCalls' = weekCalls (-) One(c)) =>
             /\ errorMsg' = "Failed to load weeks"
             /\ UNCHANGED <<weeks, selectedWeek>>
     /\ \A c \in BagToSet(taskCalls) :
          (c.st = "sent" /\ taskCalls' = taskCalls (-) One(c)) =>
             /\ errorMsg' = "Failed to load tasks"
             /\ UNCHANGED <<tasks, taskIdSetRef, notesByTask, draftByTask>>
     /\ \A c \in BagToSet(noteCalls) :
          (c.st = "sent" /\ noteCalls' = noteCalls (-) One(c)) =>
             /\ errorMsg' = "Failed to load task notes"
             /\ UNCHANGED <<notesByTask, draftByTask>>]_vars

\* a tasks fetch has failed over a loaded week whose notes were hydrated
C10_Witness ==
  /\ last.op = "tasksFailed"
  /\ errorMsg = "Failed to load tasks"
  /\ tasks # << >>
  /\ \E k \in DOMAIN notesByTask : notesByTask[k].updated_at = StoreTime

\* the turn in which the answer c of the weeks fetch is applied
IsWeeksLoaded(c) == c.st = "ok" /\ weekCalls' = weekCalls (-) One(c)

\* C11: after a successful weeks load that returns a non-empty set, the
\* selected week is in the fetched set: the previous selection if it is in
\* the set, otherwise the smallest week_number; an empty fetched set leaves
\* the selection unchanged.
C11_SelectionInFetchedSet ==
  [][\A c \in BagToSet(weekCalls) :
       IsWeeksLoaded(c) =>
         /\ weeks' = c.data
         /\ IF c.data = << >>
              THEN selectedWeek' = selectedWeek
              ELSE /\ selectedWeek' \in Range(c.data)
                   /\ selectedWeek \in Range(c.data) => selectedWeek' = selectedWeek
                   /\ selectedWeek \notin Range(c.data) =>
                        \A w \in Range(c.data) : selectedWeek' <= w]_vars

\* a weeks load has selected the first of several fetched weeks
C11_Witness ==
  /\ last.op = "weeksDone"
  /\ Len(weeks) > 1
  /\ selectedWeek = weeks[1]
  /\ \A i \in DOMAIN weeks : weeks[1] <= weeks[i]

\* the turn in which the answer c of a tasks fetch is applied
IsTasksLoaded(c) == c.st = "ok" /\ taskCalls' = taskCalls (-) One(c)

\* C12, as claimed: with the session confirmed, every change of the selected
\* week to a week_number of the fetched weeks, 0 included, issues a task
\* fetch filtered by that week_number; the successful result of a task fetch
\* replaces the task list and the visible id set and starts a hydration for
\* those ids.
C12_WeekChangeLoadsTasks ==
  [][/\ (authChecked' /\ selectedWeek' # selectedWeek /\ selectedWeek' \in Range(weeks')) =>
          taskCalls' = taskCalls (+) One(TaskCall(selectedWeek'))
     /\ \A c \in BagToSet(taskCalls) :
          IsTasksLoaded(c) =>
            /\ tasks' = c.data
            /\ taskIdSetRef' = Ids(c.data)
            /\ IF c.data = << >>
                 THEN notesByTask' = EmptyMap /\ draftByTask' = EmptyMap
                 ELSE noteCalls' = noteCalls (+) One(NoteCall(Ids(c.data)))]_vars

\* the turn is a click on Add Task
IsAddTask == last'.op = "addTask"
\* the turn in which a task write c returns with an error
IsWriteFailure(c) == c.st = "sent" /\ writeCalls' = writeCalls (-) One(c)
\* the turn in which a task write c returns without one
IsWriteSuccess(c) == c.st = "ok" /\ writeCalls' = writeCalls (-) One(c)

\* C13, as claimed: addTask issues an insert if and only if a week is
\* selected and the trimmed description is not empty; rejected, it issues no
\* write and changes no state; the row it inserts carries the selected week,
\* the chosen owner, the trimmed description and status Pending; a failed
\* insert sets an error message.
C13_AddTaskGuard ==
  [][/\ IsAddTask =>
          IF selectedWeek # Null /\ trim(newDesc) # EmptyText
            THEN writeCalls' =
                   writeCalls (+) One([kind |-> "insert", id |-> 0,
                                       week_number |-> selectedWeek, owner |-> newOwner,
                                       description |-> trim(newDesc),
                                       status |-> "Pending", st |-> "sent"])
            ELSE page' = page /\ gateway' = gateway
     /\ \A c \in BagToSet(writeCalls) :
          (c.kind = "insert" /\ IsWriteFailure(c)) => errorMsg' = "Failed to add task"]_vars

\* what the three task mutations must leave alone
TaskState == <<tasks, taskIdSetRef, notesByTask, draftByTask>>

\* C14: addTask, updateStatus and the completion toggle never modify the
\* task list, the visible id set, the note cache or the draft cache, neither
\* when called nor when their write succeeds or fails; the task list changes
\* only when a task load completes successfully.
C14_MutationsKeepTaskState ==
  [][/\ last'.op \in {"addTask", "updateStatus", "setTaskCompleted"} => TaskState' = TaskState
     /\ \A c \in BagToSet(writeCalls) :
          (IsWriteFailure(c) \/ IsWriteSuccess(c)) => TaskState' = TaskState
     /\ tasks' # tasks =>
          \E c \in BagToSet(taskCalls) : IsTasksLoaded(c) /\ tasks' = c.data]_vars

\* an insert has succeeded and the task list does not show the new row
C14_Witness ==
  /\ last = Turn("writeDone", NoKey, TRUE)
  /\ \E t \in dbTasks : t.week_number = selectedWeek /\ t.id \notin Range(Ids(tasks))

\* the turn in which the store answers the tasks fetch c with d
IsTasksServed(c, d) ==
  /\ c.st = "sent"
  /\ d.st = "ok"
  /\ d.week = c.week
  /\ taskCalls' = (taskCalls (-) One(c)) (+) One(d)

\* C16: after addTask succeeds for the selected week, the delivery of its
\* change event starts a full task reload for that week; the reload's answer
\* holds every task the store has for the week, the new one included, with
\* status Pending and the chosen owner; its completion replaces the task
\* list with the answer and starts a note hydration for its ids.
C16_AddedTaskShows ==
  /\ [](\A c \in BagToSet(writeCalls) :
          (c.kind = "insert" /\ c.st = "ok") =>
             \E t \in dbTasks : /\ t.week_number = c.week_number
                                /\ t.owner = c.owner
                                /\ t.description = c.description
                                /\ t.status = "Pending")
  /\ [][/\ \A e \in BagToSet(feed) :
             (e.table = "tasks" /\ Subscribed(e) /\ feed' = feed (-) One(e)) =>
                /\ e.ref = selectedWeek
                /\ taskCalls' = taskCalls (+) One(TaskCall(selectedWeek))
        /\ \A c \in BagToSet(taskCalls), d \in BagToSet(taskCalls') :
             IsTasksServed(c, d) =>
                {t \in dbTasks : t.week_number = c.week} = Range(d.data)
        /\ \A c \in BagToSet(taskCalls) :
             IsTasksLoaded(c) =>
                /\ tasks' = c.data
                /\ c.data # << >> => noteCalls' = noteCalls (+) One(NoteCall(Ids(c.data)))]_vars

\* a week with no task was shown, one task was added for owner A, and the
\* reload and the hydration have completed: the list is that one task
C16_Witness ==
  /\ last.op = "notesDone"
  /\ Len(tasks) = 1
  /\ tasks[1].week_number = selectedWeek
  /\ tasks[1].owner = OWNER_A
  /\ tasks[1].status = "Pending"
  /\ tasks[1] \notin StoreTasks
  /\ DOMAIN notesByTask = {tasks[1].id} \X Owners

\* C15, as claimed: while the session is confirmed and a week is selected,
\* exactly two subscriptions are active, one on the task rows of the selected
\* week and one on all note rows; and no subscription on the task rows of a
\* week selected before remains.
C15_TwoSubscriptions ==
  /\ (authChecked /\ selectedWeek # Null) =>
        channels = {[table |-> "tasks", filter |-> selectedWeek],
                    [table |-> "task_notes", filter |-> Null]}
  /\ \A ch \in channels : ch.table = "tasks" => ch.filter = selectedWeek

\* the turn changes a cache and leaves k's draft and saved note as they were
LeavesAlone(k) ==
  /\ draftByTask' # draftByTask \/ notesByTask' # notesByTask
  /\ DraftOf(draftByTask', k) = DraftOf(draftByTask, k)
  /\ SavedOf(notesByTask', k) = SavedOf(notesByTask, k)

\* C17, as claimed: the debounce timer is per key: an edit of another key's
\* draft, or any other change that does not affect key k, neither cancels
\* nor postpones k's pending flush, which stays due 1.5 s after k's own
\* last edit.
C17_TimerPerKey ==
  [][\A k \in DOMAIN autosaveTimersRef :
       (LeavesAlone(k) /\ k \in VisibleKeys(tasks')) =>
          /\ k \in DOMAIN autosaveTimersRef'
          /\ autosaveTimersRef'[k].left = autosaveTimersRef[k].left]_vars

\* the last turn was a save request for k that saveNote dropped: a write for
\* k was under way
DroppedFor(k) ==
  /\ last.op \in {"clickSave", "timerFires", "burstFlushed"}
  /\ last.key = k
  /\ ~last.flag
  /\ k \in autosaveInFlightRef
\* this turn is the return of k's write, failed or not
FinishesWriteOf(k) ==
  /\ last'.op \in {"saveFailed", "saveDone"}
  /\ last'.key = k
  /\ k \notin autosaveInFlightRef'

\* C18, as claimed: a save request dropped because a write for its key is
\* under way is not lost: when that write returns, failed or not, and the
\* key's draft still differs from its saved note, a debounce timer is pending
\* for the key, so that a write follows without a further edit.
C18_DroppedSaveRetried ==
  [][\A k \in Keys :
       (DroppedFor(k) /\ FinishesWriteOf(k) /\ k \in VisibleKeys(tasks') /\ Dirty(k)')
          => k \in DOMAIN autosaveTimersRef']_vars

\* C19: a write that the expiry of a key's debounce timer issues is issued
\* only while the key's current draft differs from its current saved note,
\* and it is saveNote's write of the current draft, whatever the draft and
\* the saved note were when a timer was first armed for the key.
C19_TimerUsesCurrentValues ==
  [][\A k \in Keys :
       (FiresFor(k) /\ saveCalls' # saveCalls) =>
          /\ Dirty(k)
          /\ saveCalls' = saveCalls (+) One(WriteOfDraft(k))]_vars

\* a timer has expired and sent a write of the current draft after the saved
\* note of its key had changed under a pending timer
C19_Witness ==
  /\ last.op = "timerFires"
  /\ last.flag
  /\ SavedOf(notesByTask, last.key) # EmptyText
  /\ \E c \in BagToSet(saveCalls) :
        /\ makeKey(c.task_id, c.owner) = last.key
        /\ c.st = "sent"
        /\ c.raw = DraftOf(draftByTask, last.key)
        /\ c.raw # SavedOf(notesByTask, last.key)

\* the turn in which the successful write c returns
IsSaved(c) == c.st = "ok" /\ saveCalls' = saveCalls (-) One(c)
\* the task list on display is the answer of a load for a week other than the
\* selected one, and no load is under way that would replace it
StaleListShown ==
  /\ taskCalls = EmptyBag
  /\ tasks # << >>
  /\ \A i \in DOMAIN tasks : tasks[i].week_number # selectedWeek

\* C20: a task load, a note hydration and a note save under way are never
\* cancelled by a change of the selected week, and the result of each is
\* applied when it completes, whatever week is selected then: the answer of
\* a task load replaces the task list and the visible id set, the answer of
\* a hydration replaces both caches, and a successful save writes its entry
\* into the note cache, for a task on display or not.
C20_ResultsAppliedAfterSwitch ==
  [][/\ selectedWeek' # selectedWeek =>
          /\ taskCalls \sqsubseteq taskCalls'
          /\ noteCalls' = noteCalls
          /\ saveCalls' = saveCalls
     /\ \A c \in BagToSet(taskCalls) :
          IsTasksLoaded(c) => (tasks' = c.data /\ taskIdSetRef' = Ids(c.data))
     /\ \A c \in BagToSet(noteCalls) :
          IsHydration(c) =>
             /\ notesByTask' = NextNotes(c.taskIds, c.data)
             /\ draftByTask' = NextDraft(c.taskIds, c.data)
     /\ \A c \in BagToSet(saveCalls) :
          IsSaved(c) =>
             /\ makeKey(c.task_id, c.owner) \in DOMAIN notesByTask'
             /\ notesByTask'[makeKey(c.task_id, c.owner)] =
                  [note |-> c.note, updated_at |-> ClientNow]]_vars

\* a save has returned and written its entry for a task that is not on
\* display, while the list on display is the late answer of a load for a
\* week that is no longer selected
C20_Witness ==
  /\ StaleListShown
  /\ last.op = "saveDone"
  /\ last.key \notin VisibleKeys(tasks)
  /\ last.key \in DOMAIN notesByTask
  /\ notesByTask[last.key].updated_at = ClientNow

\* the note the store holds for the pair k, empty if it holds no row
StoredOf(db, k) ==
  LET rows == {r \in BagToSet(db) : makeKey(r.task_id, r.owner) = k}
  IN IF rows = {} THEN EmptyText ELSE (CHOOSE r \in rows : TRUE).note
\* no fetch and no save is under way, no debounce timer is pending, and every
\* change event has been delivered and handled
Quiescent ==
  /\ weekCalls = EmptyBag
  /\ taskCalls = EmptyBag
  /\ noteCalls = EmptyBag
  /\ saveCalls = EmptyBag
  /\ DOMAIN autosaveTimersRef = {}
  /\ feed = EmptyBag

\* C21, as claimed: in every state where no save or load is under way, no
\* debounce timer is pending and every change event has been delivered and
\* handled, the saved note the cache holds for every visible (task, owner)
\* pair equals the note the store holds for that pair, empty if it holds no
\* row.
C21_CacheConverges ==
  Quiescent =>
     \A k \in VisibleKeys(tasks) : SavedOf(notesByTask, k) = StoredOf(dbNotes, k)

=============================================================================
